---- MODULE Spec2Model ----
(***************************************************************************)
(* Model of the image/PDF text extractor: the file collection held by the  *)
(* Index page, the FileUpload handlers that change its membership, the     *)
(* OCRProcessor effect that runs processFiles over the pending files, and  *)
(* the two extraction entry points processImage and processPDF.            *)
(*                                                                         *)
(* The specifications share the variables:                                 *)
(*   Spec        the collection, the handlers and the processFiles runs;   *)
(*               an extraction is one step that returns what               *)
(*               processImage / processPDF return for some outcome of the  *)
(*               external engines.                                         *)
(*   SpecExtract one call of processImage or processPDF, statement by      *)
(*               statement, for every plan of outcomes of the engines.     *)
(*   SpecIds     Spec for every outcome of Math.random(), equal ids too.   *)
(*   FairSpec    Spec with every effect run and every extraction returning. *)
(*   SpecWords   one call of countWords on a bounded text.                 *)
(*   SpecManual  one call of processPDFManual on a bounded file of bytes.  *)
(*   SpecWorker  executions of processPDFWithOCR over the shared workerSrc. *)
(***************************************************************************)
EXTENDS Integers, Sequences, FiniteSets, Bags, TLC

VARIABLES
    files,       \* Index: the `files` state as last set by setFiles
    props,       \* the `files` the last render handed to FileUpload / OCRProcessor
    dirty,       \* setFiles was called and the render + effect have not run yet
    runs,        \* bag of processFiles invocations suspended at their await
    nextId,      \* number of File objects dropped so far (the i-th is named i)
    removes,     \* number of removeFile calls so far
    dispatched,  \* history: ids handed to processImage/processPDF, and those handed twice
    merged,      \* history: ids whose update was handed to onFilesUpdate, and those twice
    lastOp,      \* history: what the last step did
    pc,          \* SpecExtract: position inside processImage / processPDF
    xfile,       \* SpecExtract: the file handed to the entry point
    plan,        \* SpecExtract: outcome of each external call, in call order
    idx,         \* SpecExtract: index of the current solution in `solutions`
    invoked,     \* SpecExtract: history, solutions invoked so far, in order
    toasts,      \* SpecExtract: notifications emitted so far, in order
    result,      \* SpecExtract: the value the entry point resolved with
    raised,      \* SpecExtract: the entry point rejected (failure reached the caller)
    random,      \* the id Math.random() yields for the i-th dropped File
    input,       \* SpecWords / SpecManual: the argument of the function
    output,      \* SpecWords / SpecManual: the value it returned
    workerSrc,   \* SpecWorker: pdfjsLib.GlobalWorkerOptions.workerSrc
    execs        \* SpecWorker: the executions of processPDFWithOCR, by position

pipeVars == <<files, props, dirty, runs, nextId, removes, dispatched, merged, lastOp>>
extVars  == <<pc, xfile, plan, idx, invoked, toasts, result, raised>>
fnVars   == <<input, output>>
ocrVars  == <<workerSrc, execs>>
vars     == <<files, props, dirty, runs, nextId, removes, dispatched, merged, lastOp,
              pc, xfile, plan, idx, invoked, toasts, result, raised,
              random, input, output, workerSrc, execs>>

outsidePipe == <<random, extVars, fnVars, ocrVars>>
outsideExt  == <<random, pipeVars, fnVars, ocrVars>>

----------------------------------------------------------------------------
(* Bounds *)

MaxFiles == 2
MaxRemoves == 1
MaxLen == 4      \* longest text handed to countWords
MaxBytes == 4    \* largest file handed to processPDFManual
MaxExecs == 2    \* executions of processPDFWithOCR, overlapping or not
MaxPages == 4    \* most pages of a PDF handed to processPDFWithOCR

----------------------------------------------------------------------------
(* Text: a string is a sequence of one-character strings. *)

UndefText == <<"undefined">>
UndefCount == -1

WhiteSpace == {" ", "\n"}

Truthy(text) == text # UndefText /\ text # <<>>

RECURSIVE TrimStart(_)
TrimStart(s) ==
    IF s # <<>> /\ Head(s) \in WhiteSpace THEN TrimStart(Tail(s)) ELSE s

RECURSIVE TrimEnd(_)
TrimEnd(s) ==
    IF s # <<>> /\ s[Len(s)] \in WhiteSpace THEN TrimEnd(SubSeq(s, 1, Len(s) - 1)) ELSE s

Trim(s) == TrimEnd(TrimStart(s))

(* String.prototype.split(/\s+/): the pieces between maximal runs of        *)
(* whitespace, empty pieces at the ends included.                           *)
RECURSIVE SplitWS(_, _, _)
SplitWS(s, piece, inGap) ==
    IF s = <<>> THEN <<piece>>
    ELSE IF Head(s) \in WhiteSpace
         THEN IF inGap THEN SplitWS(Tail(s), piece, TRUE)
              ELSE <<piece>> \o SplitWS(Tail(s), <<>>, TRUE)
         ELSE SplitWS(Tail(s), Append(piece, Head(s)), FALSE)

(* Variant: a filter that keeps the empty pieces too.                        *)
AnyWord(word) == Len(word) >= 0

NonEmptyWord(word) == Len(word) > 0

countWords(text) ==
    IF ~Truthy(text) THEN 0
    ELSE Len(SelectSeq(SplitWS(Trim(text), <<>>, FALSE), NonEmptyWord))

----------------------------------------------------------------------------
(* UploadedFile *)

(* A File of the browser: its name, its MIME type "major/minor" as the     *)
(* pair <<major, minor>>, and the extension of its name.                    *)
File(name, mime, ext) == [name |-> name, mime |-> mime, ext |-> ext]

PngFile(name) == File(name, <<"image", "png">>, "png")
PdfFile(name) == File(name, <<"application", "pdf">>, "pdf")

(* Variant: a file ingested with a word count of 0 already set.            *)
NewFileCounted(id, file, type) ==
    [id |-> id, file |-> file, type |-> type, text |-> UndefText,
     wordCount |-> 0, processing |-> TRUE]

NewFile(id, file, type) ==
    [id |-> id, file |-> file, type |-> type, text |-> UndefText,
     wordCount |-> UndefCount, processing |-> TRUE]

(* Variant: the result is stored and the file is left marked processing.   *)
CompletedStillProcessing(file, text, wordCount) ==
    [file EXCEPT !.text = text, !.wordCount = wordCount]

Completed(file, text, wordCount) ==
    [file EXCEPT !.text = text, !.wordCount = wordCount, !.processing = FALSE]

Ids(fs) == {fs[i].id : i \in 1..Len(fs)}

----------------------------------------------------------------------------
(* Outcomes of the external engines.  A call either fails or returns text. *)

Failure == [ok |-> FALSE, text |-> <<>>]
Returns(text) == [ok |-> TRUE, text |-> text]

Empty == <<>>
Ten == <<"a","b","c","d","e"," ","f","g","h","i">>
Eleven == <<"a","b","c","d","e"," ","f","g","h","i","j">>
Lorem == <<"l","o","r","e","m"," ","i","p","s","u","m"," ","d","o","l","o","r",
           " ","s","i","t"," ","a","m","e","t">>
RawOla == <<" ","o","l","a"," "," ","m","u","n","d","o","\n">>
RawBlank == <<" ","\n"," ">>

StrategyOutcomes == {Failure, Returns(Empty), Returns(Ten), Returns(Eleven), Returns(Lorem)}
OcrOutcomes == {Failure, Returns(Empty), Returns(RawBlank), Returns(RawOla), Returns(Lorem)}

----------------------------------------------------------------------------
(* processPDF: the ordered solutions and the acceptance test. *)

solutions ==
    <<"PDF.js com Worker CDN", "PDF.js Legacy", "PDF para Canvas + OCR",
      "Extracao Simples", "Parser Manual">>

MinLength == 10

(* Variant: the threshold compared with >= instead of >.                    *)
AcceptedFromMinLength(text) == Truthy(text) /\ Len(text) >= MinLength

Accepted(text) == Truthy(text) /\ Len(text) > MinLength

(* Variant: the number of characters is stored as the word count.          *)
PDFSuccessCharCount(file, text) == Completed(file, text, Len(text))

PDFSuccess(file, text) == Completed(file, text, countWords(text))

(* Variant: the failure result leaves the processing flag set.              *)
PDFAllFailedStillProcessing(file) ==
    [file EXCEPT !.text = <<>>, !.wordCount = 0]

PDFAllFailed(file) == Completed(file, <<>>, 0)

(* The for loop of processPDF from solution i on, outs[i] being what       *)
(* solution i does when it is invoked.                                      *)
RECURSIVE processPDFFrom(_, _, _)
processPDFFrom(file, outs, i) ==
    IF i > Len(solutions) THEN PDFAllFailed(file)
    ELSE IF outs[i].ok /\ Accepted(outs[i].text) THEN PDFSuccess(file, outs[i].text)
    ELSE processPDFFrom(file, outs, i + 1)

processPDF(file, outs) == processPDFFrom(file, outs, 1)

----------------------------------------------------------------------------
(* processImage *)

ImageSuccess(file, raw) == Completed(file, Trim(raw), countWords(Trim(raw)))

ImageFailed(file) == Completed(file, <<>>, 0)

processImage(file, ocr) ==
    IF ocr.ok THEN ImageSuccess(file, ocr.text) ELSE ImageFailed(file)

----------------------------------------------------------------------------
(* The collection and its handlers (Index, FileUpload). *)

(* The MIME type and extension of the files a user drops: a PNG image, a   *)
(* PDF, a plain text file, and a plain text file whose name ends in .pdf.   *)
FileTypes ==
    {[mime |-> <<"image", "png">>, ext |-> "png"],
     [mime |-> <<"application", "pdf">>, ext |-> "pdf"],
     [mime |-> <<"text", "plain">>, ext |-> "txt"],
     [mime |-> <<"text", "plain">>, ext |-> "pdf"]}

isImage(mime) == mime[1] = "image"
isPDF(mime) == mime = <<"application", "pdf">>
Supported(mime) == isImage(mime) \/ isPDF(mime)

(* useDropzone({accept}): the dropzone hands onDrop the files whose MIME    *)
(* type matches a key of `accept` or whose name ends in one of the listed   *)
(* extensions; the others go to fileRejections, for which the component     *)
(* passes no handler.                                                        *)
AcceptExtensions == {"jpeg", "jpg", "png", "gif", "bmp", "webp", "pdf"}

fileAccepted(file) ==
    \/ file.mime[1] = "image"
    \/ file.mime = <<"application", "pdf">>
    \/ file.ext \in AcceptExtensions

acceptedFiles(dropped) == SelectSeq(dropped, fileAccepted)

(* acceptedFiles.map(...).filter(Boolean): one UploadedFile per supported   *)
(* file, in order, its id the value Math.random() yields for it.            *)
RECURSIVE newFiles(_)
newFiles(accepted) ==
    IF accepted = <<>> THEN <<>>
    ELSE LET file == Head(accepted) IN
         IF Supported(file.mime)
         THEN <<NewFile(random[file.name], file,
                        IF isImage(file.mime) THEN "image" ELSE "pdf")>>
              \o newFiles(Tail(accepted))
         ELSE newFiles(Tail(accepted))

(* The names in the toast.error calls of one onDrop, in order.              *)
RECURSIVE rejections(_)
rejections(accepted) ==
    IF accepted = <<>> THEN <<>>
    ELSE IF Supported(Head(accepted).mime)
         THEN rejections(Tail(accepted))
         ELSE <<Head(accepted).name>> \o rejections(Tail(accepted))

(* The drops of 1..room files; the files dropped before number `from` and   *)
(* a file is named by its number.                                            *)
Batches(room, from) ==
    UNION {{[k \in 1..n |-> File(from + k, types[k].mime, types[k].ext)] :
               types \in [1..n -> FileTypes]} : n \in 1..room}

Op(kind, id, dispatch) ==
    [kind |-> kind, id |-> id, dispatch |-> dispatch,
     entry |-> "none", dropped |-> <<>>, rejected |-> <<>>]

NoOp == Op("init", 0, 0)

Bump(seen, id) ==
    [once |-> seen.once \cup {id},
     twice |-> IF id \in seen.once THEN seen.twice \cup {id} ELSE seen.twice]

(* A drop on the dropzone: the accepted files go to onDrop, which appends   *)
(* the new files to the `files` of the last render.                         *)
onDrop ==
    /\ nextId < MaxFiles
    /\ \E dropped \in Batches(MaxFiles - nextId, nextId) :
         LET accepted == acceptedFiles(dropped) IN
         /\ files' = props \o newFiles(accepted)
         /\ nextId' = nextId + Len(dropped)
         /\ lastOp' = [Op("drop", 0, 0) EXCEPT !.dropped = dropped,
                                              !.rejected = rejections(accepted)]
    /\ dirty' = TRUE
    /\ UNCHANGED <<props, runs, removes, dispatched, merged>>
    /\ UNCHANGED outsidePipe

(* removeFile: filters the `files` of the last render.                      *)
removeFile ==
    /\ removes < MaxRemoves
    /\ \E i \in 1..Len(props) :
         LET gone(f) == f.id # props[i].id IN
         /\ files' = SelectSeq(props, gone)
         /\ lastOp' = Op("remove", props[i].id, 0)
    /\ removes' = removes + 1
    /\ dirty' = TRUE
    /\ UNCHANGED <<props, runs, nextId, dispatched, merged>>
    /\ UNCHANGED outsidePipe

----------------------------------------------------------------------------
(* OCRProcessor: the effect and processFiles. *)

Pending(f) == f.processing /\ ~Truthy(f.text)

Reverse(seq) == [i \in 1..Len(seq) |-> seq[Len(seq) + 1 - i]]

(* Variant: the pending files taken newest first.                           *)
filesToProcessNewestFirst(fs) == Reverse(SelectSeq(fs, Pending))

filesToProcess(fs) == SelectSeq(fs, Pending)

PipeOcr == {Failure, Returns(RawOla)}
PipePlans ==
    {[i \in 1..Len(solutions) |-> Failure],
     [i \in 1..Len(solutions) |-> IF i = 3 THEN Returns(Lorem) ELSE Failure]}

(* Variant: every file goes to the PDF orchestrator.                        *)
entryPointAlwaysPDF(file) == "processPDF"

(* if (file.type === 'image') processImage(file) else processPDF(file)      *)
entryPoint(file) == IF file.type = "image" THEN "processImage" ELSE "processPDF"

(* History of the calls: Bump, and the ids sent to each entry point.        *)
Call(seen, file) ==
    [once |-> seen.once \cup {file.id},
     twice |-> IF file.id \in seen.once THEN seen.twice \cup {file.id} ELSE seen.twice,
     image |-> IF entryPoint(file) = "processImage"
               THEN seen.image \cup {file.id} ELSE seen.image,
     pdf |-> IF entryPoint(file) = "processPDF"
             THEN seen.pdf \cup {file.id} ELSE seen.pdf]

(* What the awaited entry point can resolve with for `file`.                *)
Extractions(file) ==
    IF entryPoint(file) = "processImage"
    THEN {processImage(file, ocr) : ocr \in PipeOcr}
    ELSE {processPDF(file, outs) : outs \in PipePlans}

(* files.map(f => f.id === file.id ? processedFile : f) over the `files`    *)
(* the run was started with.                                                *)
updatedFiles(snap, file, processedFile) ==
    [i \in 1..Len(snap) |-> IF snap[i].id = file.id THEN processedFile ELSE snap[i]]

(* The render after setFiles and the effect it triggers: processFiles       *)
(* starts on the rendered `files` and runs up to its first await.           *)
effect ==
    /\ dirty
    /\ dirty' = FALSE
    /\ props' = files
    /\ LET todo == filesToProcess(files) IN
       IF todo = <<>>
       THEN /\ runs' = runs
            /\ dispatched' = dispatched
            /\ lastOp' = Op("effect", 0, 0)
       ELSE /\ runs' = runs (+) SetToBag({[snap |-> files, todo |-> todo]})
            /\ dispatched' = Call(dispatched, Head(todo))
            /\ lastOp' = [Op("effect", 0, Head(todo).id)
                             EXCEPT !.entry = entryPoint(Head(todo))]
    /\ UNCHANGED <<files, nextId, removes, merged>>
    /\ UNCHANGED outsidePipe

(* A suspended processFiles resumes: the awaited extraction resolved, its   *)
(* update is merged and handed to onFilesUpdate, and the loop goes on to    *)
(* the next file of filesToProcess up to the next await.                    *)
processFiles ==
    /\ \E run \in BagToSet(runs) :
         LET file == Head(run.todo)
             rest == Tail(run.todo)
         IN \E processedFile \in Extractions(file) :
              /\ files' = updatedFiles(run.snap, file, processedFile)
              /\ merged' = Bump(merged, file.id)
              /\ IF rest = <<>>
                 THEN /\ runs' = runs (-) SetToBag({run})
                      /\ dispatched' = dispatched
                      /\ lastOp' = Op("merge", file.id, 0)
                 ELSE /\ runs' = (runs (-) SetToBag({run}))
                                   (+) SetToBag({[run EXCEPT !.todo = rest]})
                      /\ dispatched' = Call(dispatched, Head(rest))
                      /\ lastOp' = [Op("merge", file.id, Head(rest).id)
                                       EXCEPT !.entry = entryPoint(Head(rest))]
    /\ dirty' = TRUE
    /\ UNCHANGED <<props, nextId, removes>>
    /\ UNCHANGED outsidePipe

InFlight == BagCardinality(runs)

----------------------------------------------------------------------------
(* Specification of the pipeline. *)

ExtIdle ==
    /\ pc = "idle"
    /\ xfile = NewFile(0, PdfFile(0), "pdf")
    /\ plan = <<>>
    /\ idx = 0
    /\ invoked = <<>>
    /\ toasts = <<>>
    /\ result = NewFile(0, PdfFile(0), "pdf")
    /\ raised = FALSE

(* Math.random() yields a different id at every call.                      *)
DistinctIds == random = [name \in 1..MaxFiles |-> name]

FnIdle == input = <<>> /\ output = <<>>

CdnWorkerSrc == "cdnjs.cloudflare.com/pdf.worker.min.js"

OcrIdle == workerSrc = CdnWorkerSrc /\ execs = <<>>

PipeInit ==
    /\ files = <<>>
    /\ props = <<>>
    /\ dirty = FALSE
    /\ runs = EmptyBag
    /\ nextId = 0
    /\ removes = 0
    /\ dispatched = [once |-> {}, twice |-> {}, image |-> {}, pdf |-> {}]
    /\ merged = [once |-> {}, twice |-> {}]
    /\ lastOp = NoOp

Init == PipeInit /\ DistinctIds /\ ExtIdle /\ FnIdle /\ OcrIdle

(* The pipeline for every outcome of Math.random(): the substring of the    *)
(* base-36 expansion that onDrop takes as the id can repeat.                 *)
AnyIds == random \in [1..MaxFiles -> 1..MaxFiles]

InitIds == PipeInit /\ AnyIds /\ ExtIdle /\ FnIdle /\ OcrIdle

Next == onDrop \/ removeFile \/ effect \/ processFiles

Spec == Init /\ [][Next]_vars

SpecIds == InitIds /\ [][Next]_vars

(* Every render runs its effect, and every extraction call returns.         *)
FairSpec == Spec /\ WF_vars(effect) /\ WF_vars(processFiles)

----------------------------------------------------------------------------
(* One call of an entry point, statement by statement.  plan[i] is what the *)
(* i-th solution does when processPDF invokes it; for processImage plan[1]  *)
(* is what Tesseract.recognize does.                                        *)

Toast(level, about) == [level |-> level, about |-> about]

processImageStart ==
    /\ pc = "start"
    /\ xfile.type = "image"
    /\ toasts' = Append(toasts, Toast("info", "Iniciando OCR"))
    /\ pc' = "ocr"
    /\ UNCHANGED <<xfile, plan, idx, invoked, result, raised>>
    /\ UNCHANGED outsideExt

processImageResolved ==
    /\ pc = "ocr"
    /\ plan[1].ok
    /\ result' = ImageSuccess(xfile, plan[1].text)
    /\ toasts' = Append(toasts, Toast("success", "OCR concluido"))
    /\ pc' = "done"
    /\ UNCHANGED <<xfile, plan, idx, invoked, raised>>
    /\ UNCHANGED outsideExt

(* Variant: processImage without its catch block.                           *)
processImageRethrow ==
    /\ pc = "ocr"
    /\ ~plan[1].ok
    /\ raised' = TRUE
    /\ pc' = "done"
    /\ UNCHANGED <<xfile, plan, idx, invoked, toasts, result>>
    /\ UNCHANGED outsideExt

processImageCatch ==
    /\ pc = "ocr"
    /\ ~plan[1].ok
    /\ result' = ImageFailed(xfile)
    /\ toasts' = Append(toasts, Toast("error", "Erro ao processar"))
    /\ pc' = "done"
    /\ UNCHANGED <<xfile, plan, idx, invoked, raised>>
    /\ UNCHANGED outsideExt

processPDFStart ==
    /\ pc = "start"
    /\ xfile.type = "pdf"
    /\ idx' = 1
    /\ pc' = "loop"
    /\ UNCHANGED <<xfile, plan, invoked, toasts, result, raised>>
    /\ UNCHANGED outsideExt

(* Variant: the solution is invoked without the toast.info before it.      *)
processPDFTrySilent ==
    /\ pc = "loop"
    /\ idx <= Len(solutions)
    /\ invoked' = Append(invoked, idx)
    /\ pc' = "strategy"
    /\ UNCHANGED <<xfile, plan, idx, toasts, result, raised>>
    /\ UNCHANGED outsideExt

(* for (const solution of solutions): toast.info, then solution.fn(file).   *)
processPDFTry ==
    /\ pc = "loop"
    /\ idx <= Len(solutions)
    /\ toasts' = Append(toasts, Toast("info", solutions[idx]))
    /\ invoked' = Append(invoked, idx)
    /\ pc' = "strategy"
    /\ UNCHANGED <<xfile, plan, idx, result, raised>>
    /\ UNCHANGED outsideExt

(* Variant: an accepted text is recorded but the loop does not return.      *)
processPDFReturnedNoExit ==
    /\ pc = "strategy"
    /\ plan[idx].ok
    /\ IF Accepted(plan[idx].text)
       THEN /\ result' = PDFSuccess(xfile, plan[idx].text)
            /\ toasts' = Append(toasts, Toast("success", solutions[idx]))
       ELSE UNCHANGED <<result, toasts>>
    /\ idx' = idx + 1
    /\ pc' = "loop"
    /\ UNCHANGED <<xfile, plan, invoked, raised>>
    /\ UNCHANGED outsideExt

(* solution.fn resolved with text: return it if accepted, else fall        *)
(* through to the next iteration.                                           *)
processPDFReturned ==
    /\ pc = "strategy"
    /\ plan[idx].ok
    /\ IF Accepted(plan[idx].text)
       THEN /\ result' = PDFSuccess(xfile, plan[idx].text)
            /\ toasts' = Append(toasts, Toast("success", solutions[idx]))
            /\ pc' = "done"
            /\ idx' = idx
       ELSE /\ idx' = idx + 1
            /\ pc' = "loop"
            /\ UNCHANGED <<result, toasts>>
    /\ UNCHANGED <<xfile, plan, invoked, raised>>
    /\ UNCHANGED outsideExt

(* Variant: the loop body without its catch block.                          *)
processPDFRethrow ==
    /\ pc = "strategy"
    /\ ~plan[idx].ok
    /\ raised' = TRUE
    /\ pc' = "done"
    /\ UNCHANGED <<xfile, plan, idx, invoked, toasts, result>>
    /\ UNCHANGED outsideExt

(* solution.fn rejected: the catch block of the loop body.                  *)
processPDFCatch ==
    /\ pc = "strategy"
    /\ ~plan[idx].ok
    /\ toasts' = Append(toasts, Toast("error", solutions[idx]))
    /\ idx' = idx + 1
    /\ pc' = "loop"
    /\ UNCHANGED <<xfile, plan, invoked, result, raised>>
    /\ UNCHANGED outsideExt

(* The loop ran out of solutions.                                           *)
processPDFExhausted ==
    /\ pc = "loop"
    /\ idx > Len(solutions)
    /\ toasts' = Append(toasts, Toast("error", "Todas as 5 solucoes falharam"))
    /\ result' = PDFAllFailed(xfile)
    /\ pc' = "done"
    /\ UNCHANGED <<xfile, plan, idx, invoked, raised>>
    /\ UNCHANGED outsideExt

ExtInit ==
    /\ pc = "start"
    /\ xfile \in {NewFile(1, PngFile(1), "image"), NewFile(1, PdfFile(1), "pdf")}
    /\ plan \in IF xfile.type = "image"
                THEN {<<ocr>> : ocr \in OcrOutcomes}
                ELSE [1..Len(solutions) -> StrategyOutcomes]
    /\ idx = 0
    /\ invoked = <<>>
    /\ toasts = <<>>
    /\ result = xfile
    /\ raised = FALSE

InitExtract == PipeInit /\ DistinctIds /\ ExtInit /\ FnIdle /\ OcrIdle

NextExtract ==
    \/ processImageStart
    \/ processImageResolved
    \/ processImageCatch
    \/ processPDFStart
    \/ processPDFTry
    \/ processPDFReturned
    \/ processPDFCatch
    \/ processPDFExhausted

SpecExtract == InitExtract /\ [][NextExtract]_vars

----------------------------------------------------------------------------
(* WordCounter: the statistics computed from `files` at every render. *)

IsProcessed(f) == ~f.processing /\ f.wordCount # UndefCount
IsImageFile(f) == f.type = "image"
IsPdfFile(f) == f.type = "pdf"

processedFiles(fs) == SelectSeq(fs, IsProcessed)
imageFiles(fs) == SelectSeq(processedFiles(fs), IsImageFile)
pdfFiles(fs) == SelectSeq(processedFiles(fs), IsPdfFile)

(* file.wordCount || 0 *)
OrZero(wordCount) == IF wordCount = UndefCount THEN 0 ELSE wordCount

(* fs.reduce((sum, file) => sum + (file.wordCount || 0), 0) *)
RECURSIVE sumWords(_)
sumWords(fs) ==
    IF fs = <<>> THEN 0
    ELSE sumWords(SubSeq(fs, 1, Len(fs) - 1)) + OrZero(fs[Len(fs)].wordCount)

totalWords(fs) == sumWords(processedFiles(fs))
imageWords(fs) == sumWords(imageFiles(fs))
pdfWords(fs) == sumWords(pdfFiles(fs))

----------------------------------------------------------------------------
(* Specification of countWords: one call on a text, or on undefined. *)

Chars == {"a", "b", " ", "\n"}

Texts == UNION {[1..n -> Chars] : n \in 0..MaxLen}

outsideFn == <<random, pipeVars, extVars, ocrVars>>

callCountWords ==
    /\ output = UndefCount
    /\ output' = countWords(input)
    /\ UNCHANGED input
    /\ UNCHANGED outsideFn

InitWords ==
    /\ input \in Texts \cup {UndefText}
    /\ output = UndefCount
    /\ PipeInit /\ DistinctIds /\ ExtIdle /\ OcrIdle

NextWords == callCountWords

SpecWords == InitWords /\ [][NextWords]_vars

----------------------------------------------------------------------------
(* Specification of processPDFManual: one call on a file of bytes.  A byte *)
(* is the character String.fromCharCode gives for it: a letter, a digit,   *)
(* a space, or "#" for a byte outside the class [a-zA-Z0-9\s.,!?;:-].       *)

Bytes == {"a", "1", " ", "#"}
Letters == {"a"}
KeptChars == {"a", "1", " "}

ByteArrays == UNION {[1..n -> Bytes] : n \in 0..MaxBytes}

Rejected == <<"rejected">>

KeptChar(char) == char \in KeptChars

(* for (let i = 0; i < uint8Array.length - 1; i++)                          *)
scanned(uint8Array) == SubSeq(uint8Array, 1, Len(uint8Array) - 1)

LongWord(word) == Len(word) > 2 /\ \E i \in 1..Len(word) : word[i] \in Letters

RECURSIVE join(_)
join(words) ==
    IF words = <<>> THEN <<>>
    ELSE IF Len(words) = 1 THEN Head(words)
    ELSE Head(words) \o <<" ">> \o join(Tail(words))

cleanUp(text) == join(SelectSeq(SplitWS(text, <<>>, FALSE), LongWord))

processPDFManual(uint8Array) == cleanUp(SelectSeq(scanned(uint8Array), KeptChar))

readerOnload ==
    /\ output = UndefText
    /\ output' = processPDFManual(input)
    /\ UNCHANGED input
    /\ UNCHANGED outsideFn

readerOnerror ==
    /\ output = UndefText
    /\ output' = Rejected
    /\ UNCHANGED input
    /\ UNCHANGED outsideFn

InitManual ==
    /\ input \in ByteArrays
    /\ output = UndefText
    /\ PipeInit /\ DistinctIds /\ ExtIdle /\ OcrIdle

NextManual == readerOnload \/ readerOnerror

SpecManual == InitManual /\ [][NextManual]_vars

----------------------------------------------------------------------------
(* Specification of processPDFWithOCR: executions of the function, each    *)
(* advancing from one await to the next, over the process-wide workerSrc.   *)
(* The executions overlap when two processFiles runs are in flight.         *)

outsideOcr == <<random, pipeVars, extVars, fnVars>>

PageCap == 3

Awaits == {"arrayBuffer", "getDocument", "getPage", "render", "recognize"}

Executing(e) == execs[e].pc \in Awaits

(* Variant: the loop runs to the last page of the document.                 *)
lastPageOfDocument(numPages) == numPages

lastPage(numPages) == IF numPages < PageCap THEN numPages ELSE PageCap

(* The call: runs up to `await file.file.arrayBuffer()`.                    *)
processPDFWithOCRCall ==
    /\ Len(execs) < MaxExecs
    /\ execs' = Append(execs, [pc |-> "arrayBuffer", originalWorkerSrc |-> "unset",
                                numPages |-> 0, i |-> 0, rendered |-> <<>>,
                                recognized |-> <<>>])
    /\ UNCHANGED workerSrc
    /\ UNCHANGED outsideOcr

(* arrayBuffer resolved: save workerSrc, clear it, call getDocument.        *)
arrayBufferResolved ==
    \E e \in 1..Len(execs) :
        /\ execs[e].pc = "arrayBuffer"
        /\ execs' = [execs EXCEPT ![e].originalWorkerSrc = workerSrc,
                                  ![e].pc = "getDocument"]
        /\ workerSrc' = ""
        /\ UNCHANGED outsideOcr

(* getDocument resolved with a document of numPages pages: first getPage.   *)
getDocumentResolved ==
    \E e \in 1..Len(execs) :
        /\ execs[e].pc = "getDocument"
        /\ \E numPages \in 1..MaxPages :
             execs' = [execs EXCEPT ![e].numPages = numPages, ![e].i = 1,
                                    ![e].pc = "getPage"]
        /\ UNCHANGED workerSrc
        /\ UNCHANGED outsideOcr

getPageResolved ==
    \E e \in 1..Len(execs) :
        /\ execs[e].pc = "getPage"
        /\ execs' = [execs EXCEPT ![e].pc = "render"]
        /\ UNCHANGED workerSrc
        /\ UNCHANGED outsideOcr

renderResolved ==
    \E e \in 1..Len(execs) :
        /\ execs[e].pc = "render"
        /\ execs' = [execs EXCEPT ![e].rendered = Append(execs[e].rendered, execs[e].i),
                                  ![e].pc = "recognize"]
        /\ UNCHANGED workerSrc
        /\ UNCHANGED outsideOcr

(* Tesseract.recognize resolved: next page, or restore workerSrc and return. *)
recognizeResolved ==
    \E e \in 1..Len(execs) :
        /\ execs[e].pc = "recognize"
        /\ LET done == Append(execs[e].recognized, execs[e].i) IN
           IF execs[e].i + 1 <= lastPage(execs[e].numPages)
           THEN /\ execs' = [execs EXCEPT ![e].recognized = done,
                                          ![e].i = execs[e].i + 1,
                                          ![e].pc = "getPage"]
                /\ UNCHANGED workerSrc
           ELSE /\ execs' = [execs EXCEPT ![e].recognized = done,
                                          ![e].pc = "returned"]
                /\ workerSrc' = execs[e].originalWorkerSrc
        /\ UNCHANGED outsideOcr

(* An awaited promise rejected: the catch logs and throws again.            *)
awaitRejected ==
    \E e \in 1..Len(execs) :
        /\ Executing(e)
        /\ execs' = [execs EXCEPT ![e].pc = "thrown"]
        /\ UNCHANGED workerSrc
        /\ UNCHANGED outsideOcr

InitWorker == OcrIdle /\ PipeInit /\ DistinctIds /\ ExtIdle /\ FnIdle

NextWorker ==
    \/ processPDFWithOCRCall
    \/ arrayBufferResolved
    \/ getDocumentResolved
    \/ getPageResolved
    \/ renderResolved
    \/ recognizeResolved
    \/ awaitRejected

SpecWorker == InitWorker /\ [][NextWorker]_vars

----------------------------------------------------------------------------
(* Vocabulary of the properties. *)

Range(seq) == {seq[i] : i \in 1..Len(seq)}

Position(fs, id) == CHOOSE i \in 1..Len(fs) : fs[i].id = id

FirstN(n) == [k \in 1..n |-> k]

(* Number of maximal runs of non-whitespace characters of a text.           *)
NumWords(text) ==
    Cardinality({i \in 1..Len(text) :
                   /\ text[i] \notin WhiteSpace
                   /\ (i = 1 \/ text[i - 1] \in WhiteSpace)})

AllWhiteSpace(text) == \A i \in 1..Len(text) : text[i] \in WhiteSpace

(* t is raw without its leading and trailing whitespace.                    *)
IsTrimOf(t, raw) ==
    /\ t = <<>> \/ (t[1] \notin WhiteSpace /\ t[Len(t)] \notin WhiteSpace)
    /\ \E a \in 0..Len(raw) :
         /\ a + Len(t) <= Len(raw)
         /\ SubSeq(raw, a + 1, a + Len(t)) = t
         /\ AllWhiteSpace(SubSeq(raw, 1, a))
         /\ AllWhiteSpace(SubSeq(raw, a + Len(t) + 1, Len(raw)))

IsPDFCall == xfile.type = "pdf" /\ pc # "idle"
IsImageCall == xfile.type = "image" /\ pc # "idle"

LongEnough(i) == plan[i].ok /\ Len(plan[i].text) > MinLength

(* The k-th invocation has returned or failed, and the loop has dealt with  *)
(* what it gave.                                                            *)
Settled(k) == k < Len(invoked) \/ pc # "strategy"

(* The entry points of Spec are the calls of SpecExtract.                   *)
EntryPointsAgree ==
    pc = "done" =>
        result = IF xfile.type = "image" THEN processImage(xfile, plan[1])
                 ELSE processPDF(xfile, plan)

----------------------------------------------------------------------------
(* C1: at every moment at most one extraction (processImage or processPDF  *)
(* call) is in flight.                                                      *)
AtMostOneInFlight == InFlight <= 1

(* C2: each file id is handed to an extraction entry point at most once    *)
(* and exactly one update is merged for it.                                 *)
MutatedExactlyOnce == dispatched.twice = {} /\ merged.twice = {}

(* C3: a merge of the update for file id X leaves every file of the        *)
(* collection whose id is not X as it was immediately before the merge.     *)
IdentityPreservingMerge ==
    [][lastOp'.kind = "merge" =>
         \A i \in 1..Len(files) : \A j \in 1..Len(files') :
             (files[i].id # lastOp'.id /\ files'[j].id = files[i].id)
                 => files'[j] = files[i]]_vars

(* C4: a merge never changes which ids are in the collection: a file the   *)
(* user removed does not reappear, a file added meanwhile is not dropped.   *)
MergeKeepsMembership ==
    [][lastOp'.kind = "merge" => Ids(files') = Ids(files)]_vars

----------------------------------------------------------------------------
(* C5: in processPDF a text a solution returns is accepted iff it is       *)
(* non-empty and longer than 10 characters; when a solution returns        *)
(* without failure a text of 10 characters or fewer, that text is rejected *)
(* and the next solution of the list is attempted.                          *)
AcceptedAt(k) ==
    /\ pc = "done"
    /\ k = Len(invoked)
    /\ Toast("success", solutions[invoked[k]]) \in Range(toasts)
    /\ result.text = plan[invoked[k]].text

NextAttempted(k) ==
    invoked[k] < Len(solutions) =>
        \/ k < Len(invoked) /\ invoked[k + 1] = invoked[k] + 1
        \/ pc = "loop" /\ idx = invoked[k] + 1 /\ ENABLED processPDFTry

AcceptanceRule ==
    IsPDFCall =>
        \A k \in 1..Len(invoked) :
            (Settled(k) /\ plan[invoked[k]].ok) =>
                IF plan[invoked[k]].text # <<>> /\ Len(plan[invoked[k]].text) > MinLength
                THEN AcceptedAt(k)
                ELSE ~AcceptedAt(k) /\ NextAttempted(k)

AcceptanceWitness ==
    /\ IsPDFCall
    /\ pc = "done"
    /\ Len(invoked) = 3
    /\ plan[1] = Returns(Ten)
    /\ plan[2] = Returns(Empty)
    /\ plan[3] = Returns(Eleven)
    /\ result.text = Eleven

(* C6: processPDF invokes the solutions in the order of the list; the text *)
(* it returns is the output of the first solution whose output is          *)
(* accepted, wordCount is the number of words of that text, and no         *)
(* solution after the accepted one is invoked.                              *)
OrderAndEarlyExit ==
    IsPDFCall =>
        /\ invoked = FirstN(Len(invoked))
        /\ Len(invoked) <= Len(solutions)
        /\ \A first \in 1..Len(solutions) :
             (/\ pc = "done"
              /\ LongEnough(first)
              /\ \A i \in 1..(first - 1) : ~LongEnough(i))
                => /\ result.text = plan[first].text
                   /\ result.wordCount = NumWords(plan[first].text)
                   /\ result.processing = FALSE
                   /\ invoked = FirstN(first)

OrderWitness ==
    /\ IsPDFCall
    /\ pc = "done"
    /\ ~plan[1].ok
    /\ ~plan[2].ok
    /\ plan[3] = Returns(Lorem)
    /\ LongEnough(4)
    /\ result.text = Lorem
    /\ result.wordCount = 5
    /\ invoked = <<1, 2, 3>>

(* C7: when every solution fails or returns 10 characters or fewer,        *)
(* processPDF returns the file with text "", wordCount 0 and               *)
(* processing = false, having attempted each of the five solutions once.    *)
Exhaustion ==
    (IsPDFCall /\ pc = "done" /\ \A i \in 1..Len(solutions) : ~LongEnough(i))
        => /\ result = [xfile EXCEPT !.text = <<>>, !.wordCount = 0,
                                     !.processing = FALSE]
           /\ invoked = FirstN(Len(solutions))

ExhaustionWitness ==
    /\ IsPDFCall
    /\ pc = "done"
    /\ \A i \in 1..Len(solutions) : ~LongEnough(i)
    /\ \E i \in 1..Len(solutions) : ~plan[i].ok
    /\ \E i \in 1..Len(solutions) : plan[i] = Returns(Ten)
    /\ result.text = <<>>

(* C8: whatever each solution does (fail, return a short text, return an   *)
(* acceptable text), processPDF does not fail: it goes on until it returns *)
(* a file with text and wordCount defined and processing = false.           *)
PDFNeverPropagates ==
    IsPDFCall =>
        /\ ~raised
        /\ pc # "done" => ENABLED NextExtract
        /\ pc = "done" => /\ result.text # UndefText
                          /\ result.wordCount # UndefCount
                          /\ result.processing = FALSE
                          /\ result.id = xfile.id

PDFNeverPropagatesWitness ==
    /\ IsPDFCall
    /\ pc = "done"
    /\ \E i \in Range(invoked) : ~plan[i].ok
    /\ \E i \in Range(invoked) : plan[i].ok /\ ~LongEnough(i)
    /\ result.processing = FALSE
    /\ ~raised

(* C9: processImage does not fail: when the OCR call fails it returns the  *)
(* file with text "", wordCount 0 and processing = false; when it succeeds *)
(* it returns the recognized text trimmed, its word count and              *)
(* processing = false.                                                      *)
ImageNeverPropagates ==
    IsImageCall =>
        /\ ~raised
        /\ pc # "done" => ENABLED NextExtract
        /\ pc = "done" =>
             /\ result.id = xfile.id
             /\ result.processing = FALSE
             /\ IF plan[1].ok
                THEN /\ IsTrimOf(result.text, plan[1].text)
                     /\ result.wordCount = NumWords(result.text)
                ELSE /\ result.text = <<>>
                     /\ result.wordCount = 0

ImageNeverPropagatesWitness ==
    /\ IsImageCall
    /\ pc = "done"
    /\ ~plan[1].ok
    /\ result.text = <<>>
    /\ result.processing = FALSE

ImageTrimWitness ==
    /\ IsImageCall
    /\ pc = "done"
    /\ plan[1] = Returns(RawOla)
    /\ Len(result.text) = Len(RawOla) - 2
    /\ result.wordCount = 2

(* C10: at the moment a file B is handed to an extraction entry point, the *)
(* update of every file that stands before B in the collection has been    *)
(* merged into the collection.                                              *)
Preceding(fs, id) ==
    IF id \in Ids(fs) THEN {fs[i].id : i \in 1..(Position(fs, id) - 1)} ELSE {}

SerialOrdering ==
    [][lastOp'.dispatch # 0 =>
         /\ lastOp'.dispatch \in Ids(files')
         /\ Preceding(files', lastOp'.dispatch) \subseteq merged'.once]_vars

SerialOrderingWitness ==
    /\ lastOp.kind = "merge"
    /\ lastOp.dispatch # 0
    /\ lastOp.id \in Preceding(files, lastOp.dispatch)
    /\ lastOp.id \in merged.once
    /\ ~Pending(files[Position(files, lastOp.id)])
    /\ Pending(files[Position(files, lastOp.dispatch)])

----------------------------------------------------------------------------
(* C11: once a file of the collection has processing = false it never goes *)
(* back to processing = true and is never handed to an extraction entry    *)
(* point again.                                                             *)
NoAutomaticRetry ==
    [][\A i \in 1..Len(files) :
         ~files[i].processing =>
             /\ \A j \in 1..Len(files') :
                  files'[j].id = files[i].id => ~files'[j].processing
             /\ lastOp'.dispatch # files[i].id]_vars

(* C12: in every state of the collection each file has wordCount defined   *)
(* iff text is defined, and processing = false implies both are defined;   *)
(* a file just ingested has processing = true and neither of them.          *)
TextDefined(f) == f.text # UndefText
CountDefined(f) == f.wordCount # UndefCount

WellFormed(f) ==
    /\ CountDefined(f) <=> TextDefined(f)
    /\ ~f.processing => (TextDefined(f) /\ CountDefined(f))

DataModelInvariant ==
    /\ \A i \in 1..Len(files) : WellFormed(files[i])
    /\ lastOp.kind = "drop" =>
         \A i \in 1..Len(files) :
             files[i].id \notin Ids(props) =>
                 /\ files[i].processing
                 /\ ~TextDefined(files[i])
                 /\ ~CountDefined(files[i])

DataModelWitness ==
    /\ lastOp.kind = "drop"
    /\ \E i \in 1..Len(files) : files[i].id \notin Ids(props)
    /\ \E i \in 1..Len(files) : ~files[i].processing /\ files[i].text = <<>>
                                  /\ files[i].wordCount = 0

(* C15: a dropped file whose MIME type neither starts with image/ nor is   *)
(* application/pdf produces a rejection notification naming it and is not  *)
(* added to the collection; every file of the collection has kind image    *)
(* iff its MIME type starts with image/, and kind pdf otherwise.            *)
KindRejection ==
    /\ lastOp.kind = "drop" =>
         \A k \in 1..Len(lastOp.dropped) :
             LET file == lastOp.dropped[k] IN
             ~Supported(file.mime) =>
                 /\ file.name \in Range(lastOp.rejected)
                 /\ \A i \in 1..Len(files) : files[i].file # file
    /\ \A i \in 1..Len(files) :
         /\ files[i].type = "image" <=> isImage(files[i].file.mime)
         /\ files[i].type = "pdf" <=> ~isImage(files[i].file.mime)

(* C18: no two files of the collection share the same id.                  *)
UniqueIds ==
    \A i, j \in 1..Len(files) : files[i].id = files[j].id => i = j

(* C19: when the extraction calls return and the user stops dropping and   *)
(* removing, the pipeline comes to rest with no extraction in flight, no   *)
(* render outstanding and every file of the collection processing = false. *)
Quiescent ==
    /\ InFlight = 0
    /\ ~dirty
    /\ \A i \in 1..Len(files) : ~files[i].processing

EventualCompletion == <>[]Quiescent

EventualCompletionWitness ==
    /\ Quiescent
    /\ Len(files) = MaxFiles
    /\ merged.twice # {}

(* C13: every strategy attempt of processPDF that is rejected, because it  *)
(* raised a failure or because it returned a text at or below the          *)
(* threshold, has a failure notification of its own in the notifications,  *)
(* emitted before the attempt notification of the next strategy.            *)
FailuresRecorded ==
    IsPDFCall =>
        \A k \in 1..Len(invoked) :
            (Settled(k) /\ ~LongEnough(invoked[k])) =>
                \E p \in 1..Len(toasts) :
                    /\ toasts[p] = Toast("error", solutions[invoked[k]])
                    /\ k < Len(invoked) =>
                         \E q \in 1..Len(toasts) :
                             /\ toasts[q] = Toast("info", solutions[invoked[k + 1]])
                             /\ p < q

(* C14: processPDF emits exactly one attempt notification per strategy it  *)
(* attempts, in strategy order with none skipped, and the notification of  *)
(* a strategy is out by the time the strategy is invoked.                   *)
IsAttempt(toast) == toast.level = "info"

AttemptNotifications ==
    IsPDFCall =>
        /\ invoked = FirstN(Len(invoked))
        /\ SelectSeq(toasts, IsAttempt)
             = [k \in 1..Len(invoked) |-> Toast("info", solutions[invoked[k]])]

AttemptNotificationsWitness ==
    /\ IsPDFCall
    /\ pc = "strategy"
    /\ Len(invoked) = Len(solutions)
    /\ \E k \in 1..Len(invoked) - 1 : ~plan[k].ok
    /\ \E k \in 1..Len(invoked) - 1 : plan[k].ok

(* C16: countWords returns 0 for undefined, empty and whitespace-only      *)
(* input and otherwise the number of maximal runs of non-whitespace        *)
(* characters, and the count stays the same when a whitespace character is *)
(* added at the start, at the end, or next to whitespace between tokens.   *)
Insert(text, p, char) == SubSeq(text, 1, p) \o <<char>> \o SubSeq(text, p + 1, Len(text))

(* The places of a text where an added whitespace character is extra.       *)
ExtraPlaces(text) ==
    {p \in 0..Len(text) :
        \/ p = 0
        \/ p = Len(text)
        \/ text[p] \in WhiteSpace
        \/ text[p + 1] \in WhiteSpace}

WordCounter ==
    output # UndefCount =>
        /\ input = UndefText => output = 0
        /\ input # UndefText =>
             /\ output = NumWords(input)
             /\ AllWhiteSpace(input) => output = 0
             /\ \A p \in ExtraPlaces(input) : \A w \in WhiteSpace :
                  countWords(Insert(input, p, w)) = output

WordCounterWitness ==
    /\ output = 2
    /\ Len(input) = MaxLen
    /\ input[1] \in WhiteSpace
    /\ input[3] \in WhiteSpace

WordCounterUndefinedWitness == input = UndefText /\ output = 0

(* C17: processPDFManual keeps every byte of the file, from the first to   *)
(* the last, that maps to a character of the class, and returns the tokens *)
(* of that string longer than 2 characters with a letter, joined by single *)
(* spaces.                                                                  *)
EntireFile ==
    (output # UndefText /\ output # Rejected) =>
        output = cleanUp(SelectSeq(input, KeptChar))

(* C20: whenever no execution of processPDFWithOCR is under way, the       *)
(* process-wide workerSrc has the value set at startup, whether the        *)
(* executions returned or raised a failure, overlapping or not.            *)
WorkerSrcPreserved ==
    (\A e \in 1..Len(execs) : ~Executing(e)) => workerSrc = CdnWorkerSrc

(* C21: for a PDF of n pages an execution of processPDFWithOCR renders and *)
(* recognizes the pages 1..min(n,3) in ascending order, one OCR call per   *)
(* page, all of them by the time it returns, and never fetches, renders or *)
(* recognizes a page beyond the third.                                      *)
Min(a, b) == IF a <= b THEN a ELSE b

PagesOf(e) == Min(execs[e].numPages, 3)

PageCapRule ==
    \A e \in 1..Len(execs) :
        /\ execs[e].rendered = FirstN(Len(execs[e].rendered))
        /\ execs[e].recognized = FirstN(Len(execs[e].recognized))
        /\ Len(execs[e].recognized) <= Len(execs[e].rendered)
        /\ Len(execs[e].rendered) <= PagesOf(e)
        /\ execs[e].i <= PagesOf(e)
        /\ execs[e].pc = "returned" =>
             /\ execs[e].rendered = FirstN(PagesOf(e))
             /\ execs[e].recognized = FirstN(PagesOf(e))

PageCapWitness ==
    \E e \in 1..Len(execs) :
        /\ execs[e].pc = "returned"
        /\ execs[e].numPages = MaxPages
        /\ execs[e].recognized = <<1, 2, 3>>
        /\ \E o \in 1..Len(execs) : execs[o].pc = "returned" /\ execs[o].numPages = 2

(* C22: a file is dispatched only if, in the collection at that moment, it *)
(* has processing = true and no extracted text; it goes to processImage    *)
(* iff its kind is image and to processPDF iff its kind is pdf, and no     *)
(* file is ever sent to both.                                               *)
DispatchByKind ==
    /\ lastOp.dispatch # 0 =>
         /\ lastOp.dispatch \in Ids(files)
         /\ LET f == files[Position(files, lastOp.dispatch)] IN
            /\ f.processing
            /\ f.text = UndefText
            /\ lastOp.entry = "processImage" <=> f.type = "image"
            /\ lastOp.entry = "processPDF" <=> f.type = "pdf"
    /\ lastOp.dispatch = 0 => lastOp.entry = "none"
    /\ dispatched.image \cap dispatched.pdf = {}
    /\ dispatched.image \cup dispatched.pdf = dispatched.once

DispatchByKindWitness ==
    /\ lastOp.kind = "merge"
    /\ lastOp.entry = "processPDF"
    /\ dispatched.image # {}
    /\ dispatched.twice # {}

(* C23: in every state of the collection the total word count shown is the *)
(* sum of wordCount over exactly the files with processing = false and a   *)
(* defined wordCount, it equals the image words plus the pdf words, and    *)
(* the wordCount of every completed file is countWords of its text.        *)
RECURSIVE SumCounts(_, _)
SumCounts(fs, places) ==
    IF places = {} THEN 0
    ELSE LET i == CHOOSE j \in places : TRUE
         IN fs[i].wordCount + SumCounts(fs, places \ {i})

CountedPlaces(fs) ==
    {i \in 1..Len(fs) : ~fs[i].processing /\ fs[i].wordCount # UndefCount}

Consistent(fs) ==
    /\ totalWords(fs) = SumCounts(fs, CountedPlaces(fs))
    /\ totalWords(fs) = imageWords(fs) + pdfWords(fs)
    /\ \A i \in 1..Len(fs) :
         ~fs[i].processing => fs[i].wordCount = countWords(fs[i].text)

AggregateStatistics == Consistent(files) /\ Consistent(props)

AggregateStatisticsWitness ==
    /\ Len(files) = MaxFiles
    /\ \E i, j \in 1..Len(files) :
         /\ files[i].type = "image" /\ ~files[i].processing /\ files[i].wordCount > 0
         /\ files[j].type = "pdf" /\ ~files[j].processing /\ files[j].wordCount > 0
    /\ totalWords(files) > imageWords(files)
    /\ imageWords(files) > 0

====
